---------------------------- MODULE Spec2Model ----------------------------
(***************************************************************************)
(* A model of code-documentator (src/app.py, src/appStructure.py): the     *)
(* path filter should_include, the three os.walk passes (structure,        *)
(* content, summary), format_code and the block sequence generate_pdf      *)
(* assembles.                                                              *)
(*                                                                         *)
(* Strings are sequences of one-character strings, so that split, replace, *)
(* splitext, lower, basename, relpath, splitlines and join are computed    *)
(* character by character as Python computes them.  A file system is a set *)
(* of entries placed below the root directory given on the command line.   *)
(***************************************************************************)
EXTENDS Integers, Sequences, FiniteSets, TLC

VARIABLES
    pc,             \* position in __main__ / generate_pdf, or in the format_code harness
    arg,            \* args.root_dir, the command-line argument
    fs,             \* the source tree: entries relative to the root directory
    scanOrder,      \* the order in which the file system enumerates a directory
    root_dir,       \* root_dir after os.path.abspath
    structure,      \* result of generate_directory_structure
    file_contents,  \* first result of generate_file_contents
    file_count,     \* second result of generate_file_contents
    summary,        \* result of generate_project_summary, with what it counted
    story,          \* the flowables handed to doc.build
    location,       \* the absolute path of the directory the tree is in
    content,        \* format_code: its argument
    code            \* format_code: its result

vars == <<pc, arg, fs, scanOrder, location, root_dir, structure,
          file_contents, file_count, summary, story, content, code>>

----------------------------------------------------------------------------
(* Bounds of the model. *)

\* longest file content, in characters, drawn for format_code
MaxLen == 4

\* most entries (files and directories) below the root directory
MaxEntries == 4

----------------------------------------------------------------------------
(* Characters and strings. *)

SEP == "/"
NL == "\n"
FF == "\f"
SP == " "
DOT == "."

\* The characters the model uses, in ascending code-point order.
CodePoints ==
    << "\n", "\f", ".", "/", "J", "S", "Y", "_", "a", "b", "c", "d", "e",
       "g", "h", "i", "j", "k", "l", "m", "n", "o", "p", "r", "s", "t", "u",
       "v", "x" >>

ord(c) == CHOOSE i \in 1..Len(CodePoints) : CodePoints[i] = c

\* str.lower on one character
LowerChar(c) ==
    CASE c = "J" -> "j"
      [] c = "S" -> "s"
      [] c = "Y" -> "y"
      [] OTHER -> c

lower(s) == [i \in 1..Len(s) |-> LowerChar(s[i])]

\* s * n for a one-character string
Repeat(c, n) == [i \in 1..n |-> c]

Last(s) == s[Len(s)]
Front(s) == SubSeq(s, 1, Len(s) - 1)

\* a < b for Python strings: lexicographic by code point
RECURSIVE StrLess(_, _)
StrLess(a, b) ==
    IF a = <<>> THEN b # <<>>
    ELSE IF b = <<>> THEN FALSE
    ELSE IF a[1] = b[1] THEN StrLess(Tail(a), Tail(b))
    ELSE ord(a[1]) < ord(b[1])

\* The pieces left and right of a cut that no separator made: the last piece
\* on the left continues in the first on the right.
Merge(L, R) == Front(L) \o << Last(L) \o R[1] >> \o Tail(R)

\* The pieces of s[lo..hi] between the characters of seps: k separators give
\* k + 1 pieces, empty ones kept.  The range is halved at each call so that
\* the evaluation depth stays logarithmic in the length.
RECURSIVE Pieces(_, _, _, _)
Pieces(s, lo, hi, seps) ==
    IF lo > hi THEN << <<>> >>
    ELSE IF lo = hi THEN
        IF s[lo] \in seps THEN << <<>>, <<>> >> ELSE << <<s[lo]>> >>
    ELSE Merge(Pieces(s, lo, (lo + hi) \div 2, seps),
               Pieces(s, (lo + hi) \div 2 + 1, hi, seps))

\* str.split(sep) for a one-character separator
split(s, sep) == Pieces(s, 1, Len(s), {sep})

\* The line boundaries of str.splitlines that can occur in text read with
\* universal newlines: "\n", and the others (vertical tab, form feed, the
\* file, group and record separators, NEL, the Unicode line and paragraph
\* separators), which "\f" stands for.
LineBoundaries == {NL, FF}

\* a final empty piece is not a line
DropFinalEmpty(ps) == IF Last(ps) = <<>> THEN Front(ps) ELSE ps

\* str.splitlines(): the pieces between the line boundaries
splitlines(s) == DropFinalEmpty(Pieces(s, 1, Len(s), LineBoundaries))

\* sep.join(items[lo..hi])
RECURSIVE JoinRange(_, _, _, _)
JoinRange(sep, items, lo, hi) ==
    IF lo > hi THEN <<>>
    ELSE IF lo = hi THEN items[lo]
    ELSE JoinRange(sep, items, lo, (lo + hi) \div 2) \o sep
            \o JoinRange(sep, items, (lo + hi) \div 2 + 1, hi)

join(sep, items) == JoinRange(sep, items, 1, Len(items))

\* str.count(c) for a one-character c
count(s, c) == Cardinality({i \in 1..Len(s) : s[i] = c})

\* whether old occurs in s at position i
OccursAt(s, old, i) ==
    /\ i + Len(old) - 1 <= Len(s)
    /\ SubSeq(s, i, i + Len(old) - 1) = old

\* s.replace(old, '') from position i on, for a non-empty old: every
\* non-overlapping occurrence, scanning left to right, is removed
RECURSIVE RemoveFrom(_, _, _)
RemoveFrom(s, old, i) ==
    IF i > Len(s) THEN <<>>
    ELSE IF OccursAt(s, old, i) THEN RemoveFrom(s, old, i + Len(old))
    ELSE <<s[i]>> \o RemoveFrom(s, old, i + 1)

replace(s, old) == RemoveFrom(s, old, 1)

Digits == <<"0", "1", "2", "3", "4", "5", "6", "7", "8", "9">>

\* str(n) for n >= 0
RECURSIVE str(_)
str(n) ==
    IF n < 10 THEN <<Digits[n + 1]>>
    ELSE str(n \div 10) \o <<Digits[(n % 10) + 1]>>

----------------------------------------------------------------------------
(* format_code *)

\* the width of the line-number field in f"{i+1:4d} | {line}"
FieldWidth == 4

\* the format specification 4d on the digits d of a number: padded on the
\* left with spaces up to the field width; a longer number is kept in full
PadLeft(d) ==
    IF Len(d) >= FieldWidth THEN d ELSE Repeat(SP, FieldWidth - Len(d)) \o d

\* f"{n:4d}"
FormatD(n) == PadLeft(str(n))

\* f"{i+1:4d} | {line}" for the 0-based i of enumerate
FormatLine(i, line) == FormatD(i + 1) \o <<SP, "|", SP>> \o line

\* the loop over enumerate(lines)
NumberLines(lines) == [k \in 1..Len(lines) |-> FormatLine(k - 1, lines[k])]

format_code(text, filename) == join(<<NL>>, NumberLines(splitlines(text)))

----------------------------------------------------------------------------
(* os.path (posixpath) *)

\* the last of a non-empty set of positions, 0 for the empty set
LastOf(at) == IF at = {} THEN 0 ELSE CHOOSE i \in at : \A j \in at : j <= i

\* s.rfind(c): the last position of c in s, 0 when there is none
rfind(s, c) == LastOf({i \in 1..Len(s) : s[i] = c})

startswith(s, prefix) == OccursAt(s, prefix, 1)

\* os.path.join(a, p)
os_path_join(a, p) ==
    IF startswith(p, <<SEP>>) THEN p
    ELSE IF a = <<>> \/ Last(a) = SEP THEN a \o p
    ELSE a \o <<SEP>> \o p

\* the loop of os.path.normpath over comps[i..]
RECURSIVE NormComps(_, _, _, _)
NormComps(comps, i, new_comps, initial_slashes) ==
    IF i > Len(comps) THEN new_comps
    ELSE IF comps[i] = <<>> \/ comps[i] = <<DOT>>
        THEN NormComps(comps, i + 1, new_comps, initial_slashes)
    ELSE IF \/ comps[i] # <<DOT, DOT>>
            \/ (initial_slashes = 0 /\ new_comps = <<>>)
            \/ (new_comps # <<>> /\ Last(new_comps) = <<DOT, DOT>>)
        THEN NormComps(comps, i + 1, Append(new_comps, comps[i]),
                       initial_slashes)
    ELSE IF new_comps # <<>>
        THEN NormComps(comps, i + 1, Front(new_comps), initial_slashes)
    ELSE NormComps(comps, i + 1, new_comps, initial_slashes)

\* initial_slashes of os.path.normpath: POSIX keeps exactly two
InitialSlashes(path) ==
    IF ~startswith(path, <<SEP>>) THEN 0
    ELSE IF /\ startswith(path, <<SEP, SEP>>)
            /\ ~startswith(path, <<SEP, SEP, SEP>>) THEN 2
    ELSE 1

\* path or '.'
OrDot(path) == IF path = <<>> THEN <<DOT>> ELSE path

NormFrom(path, initial_slashes) ==
    OrDot(Repeat(SEP, initial_slashes)
            \o join(<<SEP>>, NormComps(split(path, SEP), 1, <<>>,
                                       initial_slashes)))

\* os.path.normpath(path)
normpath(path) ==
    IF path = <<>> THEN <<DOT>> ELSE NormFrom(path, InitialSlashes(path))

\* os.getcwd() of the process
getcwd == <<SEP>>

\* os.path.abspath(path)
abspath(path) ==
    IF startswith(path, <<SEP>>) THEN normpath(path)
    ELSE normpath(os_path_join(getcwd, path))

\* os.path.basename(p)
basename(p) == SubSeq(p, rfind(p, SEP) + 1, Len(p))

\* the extension, given the last separator and the last dot: from the dot
\* on, unless only dots precede it in the last component
ExtFrom(p, sepIndex, dotIndex) ==
    IF /\ dotIndex > sepIndex
       /\ \E k \in (sepIndex + 1)..(dotIndex - 1) : p[k] # DOT
    THEN SubSeq(p, dotIndex, Len(p))
    ELSE <<>>

\* os.path.splitext(p)[1]
splitext_ext(p) == ExtFrom(p, rfind(p, SEP), rfind(p, DOT))

\* the length of the common prefix of two lists
RECURSIVE CommonLen(_, _)
CommonLen(a, b) ==
    IF a = <<>> \/ b = <<>> \/ a[1] # b[1] THEN 0
    ELSE 1 + CommonLen(Tail(a), Tail(b))

\* [x for x in p.split(sep) if x]
Parts(p) == SelectSeq(split(p, SEP), LAMBDA x : x # <<>>)

\* [pardir] * (len(start_list) - i) + path_list[i:]
RelFrom(start_list, path_list, i) ==
    [k \in 1..(Len(start_list) - i) |-> <<DOT, DOT>>]
        \o SubSeq(path_list, i + 1, Len(path_list))

RelList(start_list, path_list) ==
    RelFrom(start_list, path_list, CommonLen(start_list, path_list))

\* curdir for an empty rel_list, else join(*rel_list)
RelJoin(rel_list) ==
    IF rel_list = <<>> THEN <<DOT>> ELSE join(<<SEP>>, rel_list)

\* os.path.relpath(path, start)
relpath(path, start) ==
    RelJoin(RelList(Parts(abspath(start)), Parts(abspath(path))))

----------------------------------------------------------------------------
(* Configuration *)

VALID_EXTENSIONS ==
    { <<".", "j", "s">>, <<".", "t", "s">>, <<".", "j", "s", "o", "n">>,
      <<".", "h", "t", "m", "l">>, <<".", "c", "s", "s">>,
      <<".", "j", "s", "x">>, <<".", "v", "u", "e">>,
      <<".", "s", "c", "s", "s">>, <<".", "m", "d">>,
      <<".", "g", "e", "o", "j", "s", "o", "n">> }

EXCLUDE_DIRS ==
    { <<"n", "o", "d", "e", "_", "m", "o", "d", "u", "l", "e", "s">>,
      <<".", "g", "i", "t">>, <<"d", "i", "s", "t">>,
      <<"b", "u", "i", "l", "d">>,
      <<"c", "o", "v", "e", "r", "a", "g", "e">> }

----------------------------------------------------------------------------
(* The source tree *)

\* names of the entries the model places in a tree
n_p == <<"p">>
n_ab == <<"a", "b">>
n_dist == <<"d", "i", "s", "t">>
n_x_js == <<"x", ".", "j", "s">>
n_Y_JS == <<"Y", ".", "J", "S">>
n_lnk == <<"l", "n", "k">>
n_rc == <<"r", "c">>

\* An entry: its names from the root directory down; "dir", "file" (a
\* regular file) or "other" (what os.walk lists among the files and
\* os.path.isfile denies: a broken symbolic link, a FIFO, a socket); what
\* open/read do to it; and its text.
Entry(rel, kind, read, text) ==
    [rel |-> rel, kind |-> kind, read |-> read, text |-> text]

Universe ==
    { Entry(<<n_x_js>>, "file", "ok", <<"a", NL, "b">>),
      Entry(<<n_Y_JS>>, "file", "EACCES", <<>>),
      Entry(<<n_lnk>>, "other", "ENOENT", <<>>),
      Entry(<<n_rc>>, "file", "ok", <<"a", NL>>),
      Entry(<<n_p>>, "dir", "ok", <<>>),
      Entry(<<n_ab>>, "dir", "ok", <<>>),
      Entry(<<n_dist>>, "dir", "ok", <<>>),
      Entry(<<n_p, n_x_js>>, "file", "decode", <<>>),
      Entry(<<n_p, n_p>>, "dir", "ok", <<>>),
      Entry(<<n_p, n_dist>>, "dir", "ok", <<>>),
      Entry(<<n_ab, n_x_js>>, "file", "ok", <<"b", FF, "a", NL>>),
      Entry(<<n_dist, n_x_js>>, "file", "ok", <<"a">>),
      Entry(<<n_dist, n_lnk>>, "other", "ENOENT", <<>>),
      Entry(<<n_p, n_p, n_x_js>>, "file", "ok", <<>>),
      Entry(<<n_p, n_dist, n_x_js>>, "file", "ok", <<"a", NL, NL>>) }

\* a tree holds the parent directory of each of its entries
Closed(t) ==
    \A e \in t :
        Len(e.rel) > 1 =>
            \E d \in t : d.kind = "dir" /\ d.rel = Front(e.rel)

Trees == {t \in SUBSET Universe : Cardinality(t) <= MaxEntries /\ Closed(t)}

\* The command lines the model draws: the argument as typed, and the
\* directory it names.
Invocation(typed, at) == [arg |-> typed, location |-> at]

Invocations ==
    { Invocation(<<SEP, "p">>, <<SEP, "p">>),
      Invocation(<<SEP, "p", SEP>>, <<SEP, "p">>),
      Invocation(<<"a">>, <<SEP, "a">>),
      Invocation(<<SEP, "b", "u", "i", "l", "d", SEP, "p">>,
                 <<SEP, "b", "u", "i", "l", "d", SEP, "p">>),
      Invocation(<<SEP, "d", "i", "s", "t">>, <<SEP, "d", "i", "s", "t">>) }

\* the path of the entry with these names
RECURSIVE PathOf(_)
PathOf(rel) ==
    IF rel = <<>> THEN location
    ELSE os_path_join(PathOf(Front(rel)), Last(rel))

\* the kind of the one entry found, "absent" when none was
KindOf(found) ==
    IF found = {} THEN "absent" ELSE (CHOOSE e \in found : TRUE).kind

\* what is at a path: "dir", "file", "other" or "absent"
KindAt(path) ==
    IF path = location THEN "dir"
    ELSE KindOf({e \in fs : PathOf(e.rel) = path})

EntryAt(path) == CHOOSE e \in fs : PathOf(e.rel) = path

isfile(path) == KindAt(path) = "file"

\* the names in a set of names, ascending
RECURSIVE Ascending(_)
Ascending(names) ==
    IF names = {} THEN <<>>
    ELSE
        LET m == CHOOSE x \in names : \A y \in names : y = x \/ StrLess(x, y)
        IN  <<m>> \o Ascending(names \ {m})

Reverse(s) == [i \in 1..Len(s) |-> s[Len(s) + 1 - i]]

\* sorted(names)
sorted(names) == Ascending({names[i] : i \in 1..Len(names)})

\* the names in the directory at a path
NamesIn(top) == {Last(e.rel) : e \in {x \in fs : PathOf(Front(x.rel)) = top}}

\* the file system's order, which is no order the program chooses
InScanOrder(names) ==
    IF scanOrder = "ascending" THEN Ascending(names)
    ELSE Reverse(Ascending(names))

\* os.scandir(top)
scandir(top) == InScanOrder(NamesIn(top))

----------------------------------------------------------------------------
(* The path filter and the walk *)

\* HasExcluded testing the entry's own name only
HasExcluded_own_name(path_parts) == Last(path_parts) \in EXCLUDE_DIRS

\* whether any part is an excluded name
HasExcluded(path_parts) ==
    \E i \in 1..Len(path_parts) : path_parts[i] \in EXCLUDE_DIRS

should_include(path) ==
    IF HasExcluded(split(normpath(path), SEP)) THEN FALSE
    ELSE IF isfile(path) THEN lower(splitext_ext(path)) \in VALID_EXTENSIONS
    ELSE TRUE

\* [x for x in names if should_include(os.path.join(root, x))]
Included(root, names) ==
    SelectSeq(names, LAMBDA x : should_include(os_path_join(root, x)))

\* os.walk: the entries of a directory that are directories
ListedDirs(top, names) ==
    SelectSeq(names, LAMBDA x : KindAt(os_path_join(top, x)) = "dir")

\* os.walk: the other entries
ListedFiles(top, names) ==
    SelectSeq(names, LAMBDA x : KindAt(os_path_join(top, x)) # "dir")

\* dirs after the loop body: the bodies that assign
\* dirs[:] = [d for d in dirs if should_include(...)] prune
Kept(top, dirs, prune) == IF prune THEN Included(top, dirs) ELSE dirs

\* os.walk(top), top-down: one (root, dirs, files) per directory visited,
\* the directory before its subdirectories; the walk descends into what the
\* loop body left in dirs.
RECURSIVE walk(_, _)
RECURSIVE WalkInto(_, _, _)
WalkItem(top, dirs, files, prune) ==
    << [root |-> top, dirs |-> dirs, files |-> files] >>
        \o WalkInto(top, dirs, prune)

WalkNames(top, names, prune) ==
    WalkItem(top, Kept(top, ListedDirs(top, names), prune),
             ListedFiles(top, names), prune)

walk(top, prune) == WalkNames(top, scandir(top), prune)

WalkInto(top, dirs, prune) ==
    IF dirs = <<>> THEN <<>>
    ELSE walk(os_path_join(top, dirs[1]), prune)
            \o WalkInto(top, Tail(dirs), prune)

\* the concatenation of a sequence of sequences
RECURSIVE Flatten(_)
Flatten(ss) == IF ss = <<>> THEN <<>> ELSE ss[1] \o Flatten(Tail(ss))

----------------------------------------------------------------------------
(* Flowables.  A text the program writes as a literal is one element of    *)
(* the string; `about' records the path a block was made for.              *)

Paragraph(text, style, about) ==
    [type |-> "Paragraph", text |-> text, style |-> style, about |-> about]

Preformatted(text, style, about) ==
    [type |-> "Preformatted", text |-> text, style |-> style, about |-> about]

PageBreak == [type |-> "PageBreak"]

Spacer(height) == [type |-> "Spacer", height |-> height]

Table(data) == [type |-> "Table", data |-> data]

----------------------------------------------------------------------------
(* generate_directory_structure *)

\* the number of spaces per indentation level
IndentWidth == 4

\* the indentation level of a visited directory
Level(root, startpath) == count(replace(root, startpath), SEP)

\* the name a visited directory is shown under
DisplayPath(root, startpath) ==
    IF relpath(root, startpath) = <<DOT>>
        THEN basename(abspath(startpath)) \o <<SEP>>
        ELSE basename(root) \o <<SEP>>

\* the labels of one visited directory: the directory, then its files one
\* level deeper
Labels(root, files, level, display_path) ==
    << Paragraph(Repeat(SP, IndentWidth * level) \o display_path, "DirItem",
                 root) >>
        \o [k \in 1..Len(files) |->
                Paragraph(Repeat(SP, IndentWidth * (level + 1)) \o files[k],
                          "FileItem", os_path_join(root, files[k]))]

StructureItem(item, startpath) ==
    Labels(item.root, Included(item.root, item.files),
           Level(item.root, startpath), DisplayPath(item.root, startpath))

\* the header, then the labels of every directory the walk yields
StructureOf(items, startpath) ==
    << Paragraph(<<"Project Directory Structure">>, "StructureHeader", <<>>) >>
        \o Flatten([k \in 1..Len(items) |->
                        StructureItem(items[k], startpath)])

generate_directory_structure(startpath) ==
    StructureOf(walk(startpath, TRUE), startpath)

----------------------------------------------------------------------------
(* generate_file_contents *)

\* str(e) of the exception open/read raises on the file
ErrorText(path, read) ==
    CASE read = "EACCES" ->
            <<"[Errno 13] Permission denied: '">> \o path \o <<"'">>
      [] read = "ENOENT" ->
            <<"[Errno 2] No such file or directory: '">> \o path \o <<"'">>
      [] OTHER ->
            <<"'utf-8' codec can't decode byte 0xff in position 0: invalid start byte">>

\* ReadEntry without the except branch's placeholder
ReadEntry_no_placeholder(file_path, e) == e.text

\* the try/except around open and f.read(), given the entry opened
ReadEntry(file_path, e) ==
    IF e.read = "ok" THEN e.text
    ELSE <<"Error reading file: ">> \o ErrorText(file_path, e.read)

ReadContent(file_path) == ReadEntry(file_path, EntryAt(file_path))

\* FileBlocksAt with the header appended after the listing
FileBlocksAt_header_last(file_path, filename, top) ==
    << PageBreak,
       Preformatted(format_code(ReadContent(file_path), filename), "Code",
                    file_path),
       Paragraph(<<"File: ">> \o relpath(file_path, top), "CodeHeader",
                 file_path) >>

\* the three flowables of one file
FileBlocksAt(file_path, filename, top) ==
    << PageBreak,
       Paragraph(<<"File: ">> \o relpath(file_path, top), "CodeHeader",
                 file_path),
       Preformatted(format_code(ReadContent(file_path), filename), "Code",
                    file_path) >>

FileBlocks(root, filename, top) ==
    FileBlocksAt(os_path_join(root, filename), filename, top)

\* RenderOrder without the call of sorted
RenderOrder_unsorted(files) == files

\* the order in which the files of one directory are rendered
RenderOrder(files) == sorted(files)

\* the flowables of the files of one visited directory
ContentOf(root, files, top) ==
    Flatten([k \in 1..Len(files) |-> FileBlocks(root, files[k], top)])

ContentItem(item, top) ==
    ContentOf(item.root, RenderOrder(Included(item.root, item.files)), top)

\* the files one visited directory adds to file_count
CountItem(item) == Len(RenderOrder(Included(item.root, item.files)))

RECURSIVE Sum(_)
Sum(ns) == IF ns = <<>> THEN 0 ELSE ns[1] + Sum(Tail(ns))

\* contents and file_count after the loop over the walk
ContentsOf(items, top) ==
    [contents |-> Flatten([k \in 1..Len(items) |->
                               ContentItem(items[k], top)]),
     file_count |-> Sum([k \in 1..Len(items) |-> CountItem(items[k])])]

generate_file_contents(top) == ContentsOf(walk(top, TRUE), top)

----------------------------------------------------------------------------
(* generate_project_summary *)

\* the files of one visited directory that the extension loop counts, each
\* with the key it is counted under
CountedOf(root, files) ==
    [k \in 1..Len(files) |->
        [path |-> os_path_join(root, files[k]),
         ext |-> lower(splitext_ext(files[k]))]]

\* CountedIn counting every file the walk lists
CountedIn_unfiltered(item) == CountedOf(item.root, item.files)

CountedIn(item) == CountedOf(item.root, Included(item.root, item.files))

CountedAmong(items) == Flatten([k \in 1..Len(items) |-> CountedIn(items[k])])

\* what the loop over os.walk(root_dir) counts; its body prunes nothing
CountedFiles(top) == CountedAmong(walk(top, FALSE))

\* ext_counts after that loop
ExtCounts(counted) ==
    [x \in {counted[k].ext : k \in 1..Len(counted)} |->
        Cardinality({k \in 1..Len(counted) : counted[k].ext = x})]

\* the rows of file_type_data for the keys in sorted order
Rows(ext_counts, exts) ==
    << <<"File Type", "Count">> >>
        \o [k \in 1..Len(exts) |->
                << IF exts[k] # <<>> THEN exts[k] ELSE <<"No Extension">>,
                   str(ext_counts[exts[k]]) >>]

\* file_type_data
FileTypeData(ext_counts) == Rows(ext_counts, Ascending(DOMAIN ext_counts))

\* the flowables of the summary
SummaryBlocks(top, n_files, dir_count, ext_counts) ==
    << Paragraph(<<"Project Documentation Summary">>, "StructureHeader",
                 <<>>),
       Spacer("0.3in"),
       Paragraph(<<"Project Root: ">> \o abspath(top), "SummaryItem", <<>>),
       Paragraph(<<"Generated on: ", "%Y-%m-%d %H:%M:%S">>, "SummaryItem",
                 <<>>),
       Paragraph(<<"Total Directories: ">> \o str(dir_count), "SummaryItem",
                 <<>>),
       Paragraph(<<"Total Files Documented: ">> \o str(n_files),
                 "SummaryItem", <<>>),
       Spacer("0.2in"),
       Table(FileTypeData(ext_counts)) >>

\* the summary, with the directories and the files its two loops counted
SummaryOf(top, n_files, dir_walk, counted) ==
    [blocks |-> SummaryBlocks(top, n_files, Len(dir_walk), ExtCounts(counted)),
     dir_count |-> Len(dir_walk),
     ext_counts |-> ExtCounts(counted),
     counted_dirs |-> [k \in 1..Len(dir_walk) |-> dir_walk[k].root],
     counted_files |-> counted]

generate_project_summary(top, n_files) ==
    SummaryOf(top, n_files, walk(top, TRUE), CountedFiles(top))

----------------------------------------------------------------------------
(* __main__ and generate_pdf *)

NoSummary ==
    [blocks |-> <<>>, dir_count |-> 0, ext_counts |-> <<>>,
     counted_dirs |-> <<>>, counted_files |-> <<>>]

Init ==
    /\ pc = "main"
    /\ \E i \in Invocations : arg = i.arg /\ location = i.location
    /\ fs \in Trees
    /\ scanOrder \in {"ascending", "descending"}
    /\ root_dir = <<>>
    /\ structure = <<>>
    /\ file_contents = <<>>
    /\ file_count = 0
    /\ summary = NoSummary
    /\ story = <<>>
    /\ content = <<>>
    /\ code = <<>>

\* __main__: root_dir = os.path.abspath(args.root_dir); the directory exists
Main ==
    /\ pc = "main"
    /\ root_dir' = abspath(arg)
    /\ pc' = "cover"
    /\ UNCHANGED <<arg, fs, scanOrder, location, structure, file_contents,
                   file_count, summary, story, content, code>>

\* generate_pdf: the cover page
CoverPage ==
    /\ pc = "cover"
    /\ story' =
        << Paragraph(<<"Project Documentation">>, "Title", <<>>),
           Spacer("0.5in"),
           Paragraph(<<"Project: ">> \o basename(abspath(root_dir)),
                     "Heading2", <<>>),
           Paragraph(<<"Generated on: ", "%Y-%m-%d">>, "Heading3", <<>>),
           PageBreak >>
    /\ pc' = "structure"
    /\ UNCHANGED <<arg, fs, scanOrder, location, root_dir, structure,
                   file_contents, file_count, summary, content, code>>

\* generate_pdf: story.extend(generate_directory_structure(root_dir)), then
\* a page break
Structure ==
    /\ pc = "structure"
    /\ structure' = generate_directory_structure(root_dir)
    /\ story' = Append(story \o structure', PageBreak)
    /\ pc' = "contents"
    /\ UNCHANGED <<arg, fs, scanOrder, location, root_dir, file_contents,
                   file_count, summary, content, code>>

\* file_contents, file_count = ...; story.extend(file_contents)
Returned(r) ==
    /\ file_contents' = r.contents
    /\ file_count' = r.file_count
    /\ story' = story \o r.contents

\* generate_pdf: file_contents, file_count = generate_file_contents(root_dir)
Contents ==
    /\ pc = "contents"
    /\ Returned(generate_file_contents(root_dir))
    /\ pc' = "summary"
    /\ UNCHANGED <<arg, fs, scanOrder, location, root_dir, structure, summary,
                   content, code>>

\* generate_pdf: a page break, then
\* story.extend(generate_project_summary(root_dir, file_count))
Summary ==
    /\ pc = "summary"
    /\ summary' = generate_project_summary(root_dir, file_count)
    /\ story' = Append(story, PageBreak) \o summary'.blocks
    /\ pc' = "build"
    /\ UNCHANGED <<arg, fs, scanOrder, location, root_dir, structure,
                   file_contents, file_count, content, code>>

\* generate_pdf: doc.build(story)
Build ==
    /\ pc = "build"
    /\ pc' = "done"
    /\ UNCHANGED <<arg, fs, scanOrder, location, root_dir, structure,
                   file_contents, file_count, summary, story, content, code>>

Next == Main \/ CoverPage \/ Structure \/ Contents \/ Summary \/ Build

Spec == Init /\ [][Next]_vars

----------------------------------------------------------------------------
(* format_code on its own *)

\* the characters of the file contents drawn
FileChars == {"a", SP, NL, FF}

\* the strings over FileChars of length n
StringsOf(n) == [1..n -> FileChars]

\* 10 ^ FieldWidth newlines: a file of that many (empty) lines, whose last
\* line number does not fit the field; and the file of one line less
LongContents ==
    { Repeat(NL, 10 ^ FieldWidth - 1), Repeat(NL, 10 ^ FieldWidth) }

FormatInputs == UNION {StringsOf(n) : n \in 0..MaxLen} \cup LongContents

InitFormat ==
    /\ pc = "format_code"
    /\ content \in FormatInputs
    /\ code = <<>>
    /\ arg = <<>>
    /\ fs = {}
    /\ scanOrder = "ascending"
    /\ location = <<>>
    /\ root_dir = <<>>
    /\ structure = <<>>
    /\ file_contents = <<>>
    /\ file_count = 0
    /\ summary = NoSummary
    /\ story = <<>>

\* code = format_code(content, filename)
FormatCode ==
    /\ pc = "format_code"
    /\ code' = format_code(content, <<>>)
    /\ pc' = "formatted"
    /\ UNCHANGED <<arg, fs, scanOrder, location, root_dir, structure,
                   file_contents, file_count, summary, story, content>>

NextFormat == FormatCode

SpecFormat == InitFormat /\ [][NextFormat]_vars

----------------------------------------------------------------------------
(* What the claims speak of *)

Done == pc = "done"

IsPrefix(a, b) == Len(a) <= Len(b) /\ SubSeq(b, 1, Len(a)) = a

\* the positions of a sequence that satisfy a test
Where(seq, Test(_)) == {k \in 1..Len(seq) : Test(seq[k])}

\* the paths with a label of a style in the structure listing
Labelled(style) ==
    {structure[k].about : k \in Where(structure, LAMBDA b : b.style = style)}

\* the positions of the content section that hold a flowable of a type for
\* a path
BlocksOf(type, path) ==
    Where(file_contents, LAMBDA b : b.type = type /\ b.about = path)

\* the paths with a preformatted block in the content section
Rendered ==
    {file_contents[k].about :
        k \in Where(file_contents, LAMBDA b : b.type = "Preformatted")}

\* the paths the extension loop of the summary counted
Counted ==
    {summary.counted_files[k].path : k \in 1..Len(summary.counted_files)}

\* how often the extension loop counted a path
TimesCounted(path) ==
    Cardinality(Where(summary.counted_files, LAMBDA r : r.path = path))

\* the directories the directory loop of the summary counted
CountedDirs == {summary.counted_dirs[k] : k \in 1..Len(summary.counted_dirs)}

\* the sum of the counts of a table
RECURSIVE SumOver(_, _)
SumOver(f, keys) ==
    IF keys = {} THEN 0
    ELSE LET x == CHOOSE x \in keys : TRUE
         IN  f[x] + SumOver(f, keys \ {x})

TableTotal == SumOver(summary.ext_counts, DOMAIN summary.ext_counts)

\* the entries in the subtree of a directory with an excluded name
UnderExcluded(e) ==
    \E d \in fs :
        /\ d.kind = "dir"
        /\ Last(d.rel) \in EXCLUDE_DIRS
        /\ IsPrefix(d.rel, e.rel)

\* the lower-cased extension of an entry's name
ExtOf(e) == lower(splitext_ext(Last(e.rel)))

\* no directory from the root directory down to the entry has an excluded
\* name, the root directory's own name included
CleanFromRoot(e) ==
    /\ basename(location) \notin EXCLUDE_DIRS
    /\ ~UnderExcluded(e)

----------------------------------------------------------------------------
(* C1: nothing in the subtree of a directory with an excluded name, at any  *)
(* depth below the root, has a label in the structure listing, a block in   *)
(* the content section, or a part in the summary's directory count or       *)
(* extension counts.                                                        *)

C1_ExcludedSubtreeAbsent ==
    Done =>
        /\ \A e \in fs :
            UnderExcluded(e) =>
                /\ PathOf(e.rel) \notin Labelled("DirItem")
                /\ PathOf(e.rel) \notin Labelled("FileItem")
                /\ PathOf(e.rel) \notin Rendered
                /\ PathOf(e.rel) \notin Counted
                /\ PathOf(e.rel) \notin CountedDirs
        /\ summary.dir_count
              <= 1 + Cardinality({e \in fs : e.kind = "dir" /\ ~UnderExcluded(e)})
        /\ TableTotal
              <= Cardinality({e \in fs : e.kind # "dir" /\ ~UnderExcluded(e)})
        /\ file_count
              <= Cardinality({e \in fs : e.kind # "dir" /\ ~UnderExcluded(e)})

\* an allowed file two levels down in an excluded directory, beside a file
\* that was documented
C1_Witness ==
    /\ Done
    /\ file_count > 0
    /\ \E e \in fs :
        /\ UnderExcluded(e)
        /\ e.kind = "file"
        /\ ExtOf(e) \in VALID_EXTENSIONS
        /\ Len(e.rel) > 2

----------------------------------------------------------------------------
(* C2: every regular file with an allowed (lower-cased) extension and no    *)
(* excluded name on the way from the root down to it gets exactly one       *)
(* content block, counts once in file_count and once, under its lower-cased *)
(* extension, in the summary table.                                         *)

C2_AllowedFileOnce ==
    Done =>
        \A e \in fs :
            (e.kind = "file" /\ ExtOf(e) \in VALID_EXTENSIONS /\ CleanFromRoot(e))
            =>
                /\ Cardinality(BlocksOf("Preformatted", PathOf(e.rel))) = 1
                /\ Cardinality(BlocksOf("Paragraph", PathOf(e.rel))) = 1
                /\ TimesCounted(PathOf(e.rel)) = 1
                /\ \A k \in 1..Len(summary.counted_files) :
                      summary.counted_files[k].path = PathOf(e.rel)
                          => summary.counted_files[k].ext = ExtOf(e)
                /\ ExtOf(e) \in DOMAIN summary.ext_counts
                /\ file_count >= 1

----------------------------------------------------------------------------
(* C3: the root directory is never tested against the excluded names: for   *)
(* any root path, also one with an excluded name among its own components,  *)
(* the allowed files and the directories with no excluded name below the    *)
(* root are in the structure, the content and the summary.                  *)

C3_RootNeverTested ==
    Done =>
        \A e \in fs :
            ~UnderExcluded(e) =>
                /\ e.kind = "dir" =>
                      /\ PathOf(e.rel) \in Labelled("DirItem")
                      /\ PathOf(e.rel) \in CountedDirs
                /\ (e.kind = "file" /\ ExtOf(e) \in VALID_EXTENSIONS) =>
                      /\ PathOf(e.rel) \in Labelled("FileItem")
                      /\ PathOf(e.rel) \in Rendered
                      /\ PathOf(e.rel) \in Counted

----------------------------------------------------------------------------
(* C4: an entry that is not a directory is in the structure, the content    *)
(* or the extension table only if its lower-cased extension is allowed; the *)
(* table has no 'No Extension' row and no row for another extension.        *)

C4_OnlyAllowedExtensions ==
    Done =>
        /\ \A e \in fs :
            (/\ e.kind # "dir"
             /\ \/ PathOf(e.rel) \in Labelled("FileItem")
                \/ PathOf(e.rel) \in Rendered
                \/ PathOf(e.rel) \in Counted)
            => ExtOf(e) \in VALID_EXTENSIONS
        /\ DOMAIN summary.ext_counts \subseteq VALID_EXTENSIONS
        /\ LET data == summary.blocks[Len(summary.blocks)].data
           IN  \A k \in 2..Len(data) : data[k][1] \in VALID_EXTENSIONS

----------------------------------------------------------------------------
(* C5: on an unchanged tree the structure pass, the content pass and the    *)
(* extension loop of the summary name the same files, and file_count is the *)
(* sum of the counts in the summary table.                                  *)

C5_PassesAgree ==
    Done =>
        /\ Labelled("FileItem") = Rendered
        /\ Rendered = Counted
        /\ file_count = TableTotal
        /\ file_count = Cardinality(Rendered)

\* files were documented while the tree also holds an excluded directory
\* with a file in it and a file that is left out for its extension
C5_Witness ==
    /\ Done
    /\ file_count > 0
    /\ \E e \in fs : UnderExcluded(e) /\ e.kind # "dir"
    /\ \E e \in fs :
        ~UnderExcluded(e) /\ e.kind = "file" /\ PathOf(e.rel) \notin Rendered

----------------------------------------------------------------------------
(* C6: format_code on a content of N lines returns N lines joined by        *)
(* newline, line i being i right-aligned in a field of width 4 (a number of *)
(* more digits written in full), then ' | ', then the text of line i        *)
(* unchanged; no line is added, dropped, split or merged, for N = 0, for a  *)
(* last line without newline and for N > 9999.                              *)

\* the lines of a file: the text between newlines; what follows the last
\* newline is a line unless it is empty
FileLines(text) == DropFinalEmpty(split(text, NL))

\* the value of a string of decimal digits
RECURSIVE ValueOf(_)
ValueOf(d) ==
    IF d = <<>> THEN 0
    ELSE 10 * ValueOf(Front(d))
            + (CHOOSE v \in 0..9 : Digits[v + 1] = Last(d))

\* the number of spaces a string starts with
LeadingSpaces(s) ==
    CHOOSE n \in 0..Len(s) :
        /\ \A k \in 1..n : s[k] = SP
        /\ n = Len(s) \/ s[n + 1] # SP

\* s is the number i right-aligned in a field of width 4
IsNumber(s, i) ==
    /\ Len(s) >= FieldWidth
    /\ Len(s) > FieldWidth => s[1] # SP
    /\ LeadingSpaces(s) < Len(s)
    /\ \A k \in (LeadingSpaces(s) + 1)..Len(s) :
          \E v \in 1..10 : Digits[v] = s[k]
    /\ ValueOf(SubSeq(s, LeadingSpaces(s) + 1, Len(s))) = i

\* out is line i of the listing for the text line
IsNumbered(out, i, line) ==
    \E w \in FieldWidth..Len(out) :
        /\ IsNumber(SubSeq(out, 1, w), i)
        /\ SubSeq(out, w + 1, Len(out)) = <<SP, "|", SP>> \o line

\* the lines of the listing
ListingLines(listing) == IF listing = <<>> THEN <<>> ELSE split(listing, NL)

NumbersEveryLine(lines, listed) ==
    /\ Len(listed) = Len(lines)
    /\ \A i \in 1..Len(lines) : IsNumbered(listed[i], i, lines[i])

C6_NumbersEveryLine ==
    pc = "formatted" => NumbersEveryLine(FileLines(content), ListingLines(code))

----------------------------------------------------------------------------
(* C7: a file that cannot be read still gets exactly one content block,     *)
(* whose body is the numbered placeholder 'Error reading file: ...', still  *)
(* counts once in file_count, and the files after it still get their        *)
(* blocks: every file of the structure listing has its block.               *)

Placeholder == <<SP, SP, SP, "1", SP, "|", SP, "Error reading file: ">>

C7_ReadFailureKeepsBlock ==
    Done =>
        /\ Rendered = Labelled("FileItem")
        /\ \A path \in Rendered :
              /\ Cardinality(BlocksOf("Preformatted", path)) = 1
              /\ Cardinality(BlocksOf("Paragraph", path)) = 1
              /\ EntryAt(path).read # "ok" =>
                    \A k \in BlocksOf("Preformatted", path) :
                        /\ IsPrefix(Placeholder, file_contents[k].text)
                        /\ count(file_contents[k].text, NL) = 0
        /\ file_count = Cardinality(Rendered)
        /\ Len(file_contents) = 3 * file_count

\* a file that could not be read, and after it the block of one that could
C7_Witness ==
    /\ Done
    /\ \E i, j \in 1..Len(file_contents) :
        /\ i < j
        /\ file_contents[i].type = "Preformatted"
        /\ file_contents[j].type = "Preformatted"
        /\ EntryAt(file_contents[i].about).read # "ok"
        /\ EntryAt(file_contents[j].about).read = "ok"
        /\ file_contents[j].text # <<>>

----------------------------------------------------------------------------
(* C8: the story handed to doc.build is the title blocks, a page break, the *)
(* structure section, a page break, the content section, a page break, the  *)
(* summary section; in the content section every file has three consecutive *)
(* blocks: page break, header with its path relative to the root, one       *)
(* preformatted block.                                                      *)

\* the path of a file relative to the root directory
RelativeToRoot(path) == SubSeq(path, Len(root_dir) + 2, Len(path))

IsFileTriple(a, b, c) ==
    /\ a = PageBreak
    /\ b.type = "Paragraph" /\ b.style = "CodeHeader"
    /\ IsPrefix(root_dir \o <<SEP>>, b.about)
    /\ b.text = <<"File: ">> \o RelativeToRoot(b.about)
    /\ c.type = "Preformatted" /\ c.style = "Code" /\ c.about = b.about

\* the sections, given where the structure section and the content section
\* end
Sectioned(s, e) ==
    /\ story[1].type = "Paragraph" /\ story[1].style = "Title"
    /\ story[2].type = "Spacer"
    /\ story[3].type = "Paragraph" /\ story[3].style = "Heading2"
    /\ story[4].type = "Paragraph" /\ story[4].style = "Heading3"
    /\ story[5] = PageBreak
    /\ story[6].type = "Paragraph"
    /\ story[6].text = <<"Project Directory Structure">>
    /\ \A k \in 7..s :
          /\ story[k].type = "Paragraph"
          /\ story[k].style \in {"DirItem", "FileItem"}
    /\ story[s + 1] = PageBreak
    /\ (e - s - 1) % 3 = 0
    /\ e - s - 1 = 3 * file_count
    /\ \A t \in 0..(file_count - 1) :
          IsFileTriple(story[s + 2 + 3 * t], story[s + 3 + 3 * t],
                       story[s + 4 + 3 * t])
    /\ story[e + 1] = PageBreak
    /\ story[e + 2].type = "Paragraph"
    /\ story[e + 2].text = <<"Project Documentation Summary">>
    /\ \A k \in (e + 3)..(Len(story) - 1) :
          \/ story[k].type = "Spacer"
          \/ story[k].type = "Paragraph" /\ story[k].style = "SummaryItem"
    /\ story[Len(story)].type = "Table"
    /\ SubSeq(story, 6, s) = structure
    /\ SubSeq(story, s + 2, e) = file_contents
    /\ SubSeq(story, e + 2, Len(story)) = summary.blocks

C8_StoryOrder ==
    Done =>
        /\ Len(story) = 5 + Len(structure) + 1 + Len(file_contents) + 1
                          + Len(summary.blocks)
        /\ Sectioned(5 + Len(structure),
                     5 + Len(structure) + 1 + Len(file_contents))

\* a story with the blocks of two files, one of them below a subdirectory
C8_Witness ==
    /\ Done
    /\ file_count >= 2
    /\ \E k \in 1..Len(file_contents) :
        /\ file_contents[k].type = "Paragraph"
        /\ count(file_contents[k].text, SEP) > 0

\* a story with no file at all
C8_WitnessEmpty == Done /\ file_count = 0 /\ fs # {}

----------------------------------------------------------------------------
(* C9: in the structure listing a directory at depth d below the root has   *)
(* 4*d leading spaces and each of its files 4*(d+1), for every root path    *)
(* and tree, also when the root path's text occurs again in a path below.   *)

\* the depth of a path below the root directory
Depth(path) == Len(Parts(path)) - Len(Parts(root_dir))

C9_IndentIsDepth ==
    Done =>
        \A k \in 2..Len(structure) :
            LeadingSpaces(structure[k].text) = 4 * Depth(structure[k].about)

----------------------------------------------------------------------------
(* C10: the content blocks follow a depth-first pre-order walk: the files   *)
(* of a directory before those of its subdirectories, the subtrees in the   *)
(* order the directories are enumerated, and within a directory the files   *)
(* in ascending order of name; this fixes the sequence for a given tree and *)
(* enumeration order, so that two runs yield the same sequence.             *)

\* the paths of the file headers of the content section, in order
Headers ==
    LET hs == SelectSeq(file_contents, LAMBDA b : b.type = "Paragraph")
    IN  [k \in 1..Len(hs) |-> hs[k].about]

\* the directory names down to a file, and its name
DirOf(path) == Front(Parts(path))

\* the first names at which two directories part
Parting(d1, d2) ==
    << d1[CommonLen(d1, d2) + 1], d2[CommonLen(d1, d2) + 1] >>

EnumeratedBefore(n1, n2) ==
    IF scanOrder = "ascending" THEN StrLess(n1, n2) ELSE StrLess(n2, n1)

\* the file at path1 belongs before the file at path2
InWalkOrder(path1, path2) ==
    IF DirOf(path1) = DirOf(path2)
        THEN StrLess(basename(path1), basename(path2))
    ELSE IF IsPrefix(DirOf(path1), DirOf(path2)) THEN TRUE
    ELSE IF IsPrefix(DirOf(path2), DirOf(path1)) THEN FALSE
    ELSE EnumeratedBefore(Parting(DirOf(path1), DirOf(path2))[1],
                          Parting(DirOf(path1), DirOf(path2))[2])

C10_ContentOrder ==
    Done =>
        /\ {Headers[k] : k \in 1..Len(Headers)} = Labelled("FileItem")
        /\ \A i, j \in 1..Len(Headers) :
              i < j => InWalkOrder(Headers[i], Headers[j])

\* two files of one directory that the file system enumerates in descending
\* order, and a file of a subdirectory
C10_Witness ==
    /\ Done
    /\ scanOrder = "descending"
    /\ \E i, j \in 1..Len(Headers) :
        i < j /\ DirOf(Headers[i]) = DirOf(Headers[j])
    /\ \E i, j \in 1..Len(Headers) :
        /\ i < j
        /\ DirOf(Headers[i]) # DirOf(Headers[j])
        /\ IsPrefix(DirOf(Headers[i]), DirOf(Headers[j]))

=============================================================================
